---- MODULE Spec2Model ----
(***************************************************************************)
(* Duo Mapping API (src/main.py, src/database.py, src/schemas.py).         *)
(*                                                                         *)
(* The stored entities are the variables category, sub_category, lines,   *)
(* erp_table and erp_column.  A request is handled by one action (the      *)
(* handlers run one at a time in the specifications below; each           *)
(* specification has the handlers and the stored rows of one concern);     *)
(* the request being answered and its response stay in req and resp until  *)
(* get_db closes the session.                                              *)
(*                                                                         *)
(* Optional[...] values and nullable columns are sequences of length <= 1: *)
(* None is << >> and the value v is << v >>.  Strings that are searched    *)
(* are sequences of one-character strings.  percent_mapped is kept as an   *)
(* exact fraction in lowest terms (the code's Float is its rounding).      *)
(***************************************************************************)
EXTENDS Integers, Sequences, FiniteSets, TLC

VARIABLES category, sub_category, lines, erp_table, erp_column, session, req, resp,
          worker

vars == <<category, sub_category, lines, erp_table, erp_column, session, req, resp,
          worker>>

\* -------------------------------------------------------------- bounds
NumLines == 3
NumCategories == 2
MaxTermLen == 3

\* ------------------------------------------------------ optional values
None == << >>
Some(v) == << v >>
Val(o) == o[1]

\* ------------------------------------------------------------- strings
\* the characters of a search term
Chars == {"a", "A", "b", " "}

LowerChar(c) == IF c = "A" THEN "a" ELSE IF c = "B" THEN "b" ELSE c

\* str.lower()
Lower(s) == [i \in 1..Len(s) |-> LowerChar(s[i])]

RECURSIVE LStrip(_)
LStrip(s) == IF s # << >> /\ Head(s) = " " THEN LStrip(Tail(s)) ELSE s

RECURSIVE RStrip(_)
RStrip(s) ==
    IF s # << >> /\ s[Len(s)] = " " THEN RStrip(SubSeq(s, 1, Len(s) - 1)) ELSE s

\* str.strip()
Strip(s) == RStrip(LStrip(s))

\* Python's "t in s" for strings
Contains(s, t) ==
    \E i \in 0..(Len(s) - Len(t)) : SubSeq(s, i + 1, i + Len(t)) = t

RECURSIVE StringsUpTo(_)
StringsUpTo(n) ==
    IF n = 0 THEN {<< >>}
    ELSE LET shorter == StringsUpTo(n - 1)
         IN shorter \cup {Append(s, c) : s \in shorter, c \in Chars}

\* ---------------------------------------------------- percent (fraction)
RECURSIVE GCD(_, _)
GCD(a, b) == IF b = 0 THEN a ELSE GCD(b, a % b)

Frac(n, d) == LET g == GCD(n, d) IN [num |-> n \div g, den |-> d \div g]

Zero == Frac(0, 1)

\* ------------------------------------------------------------ entities
\* Lines.categoryid / Lines.field_name of the seeded rows: lines 1..3 belong
\* to category 1, 4..6 to category 2, ...; every third line has a blank
\* field_name (an empty string, or NULL on every sixth line).
SeedCategory(i) == (((i - 1) \div 3) % NumCategories) + 1

SeedFieldName(i) ==
    IF i % 6 = 0 THEN None ELSE IF i % 3 = 0 THEN Some("") ELSE Some("f")

LineIds == 1..NumLines
CategoryIds == 1..NumCategories

\* ERP metadata of the mapping requests: two tables, and one column that
\* belongs to table 2 (so a request can pair it with table 1).
MappingTables ==
    [t \in 1..2 |-> [name |-> IF t = 1 THEN <<"a">> ELSE <<"b">>,
                     description |-> None]]

MappingColumns ==
    [c \in 1..1 |-> [name |-> <<"a", "b">>, table_id |-> Some(2)]]

\* ----------------------------------------------------------- responses
NoBody ==
    [id |-> None, categoryid |-> None, table_id |-> None, column_id |-> None,
     table_name |-> None, column_name |-> None, comment |-> None]

\* raise HTTPException(status_code, detail)
HTTPException(status_code, detail) ==
    [status |-> status_code, detail |-> detail, action |-> "", body |-> NoBody,
     updated_count |-> None, results |-> << >>]

\* the joined row of a line: erp_table.name / erp_column.name when related
JoinedName(rows, fk) ==
    IF fk # None /\ Val(fk) \in DOMAIN rows THEN Some(rows[Val(fk)].name) ELSE None

LineResponse(ls, tables, cols, id, action) ==
    [status |-> 200, detail |-> "", action |-> action,
     body |-> [id |-> Some(id),
               categoryid |-> Some(ls[id].categoryid),
               table_id |-> ls[id].table_id,
               column_id |-> ls[id].column_id,
               table_name |-> JoinedName(tables, ls[id].table_id),
               column_name |-> JoinedName(cols, ls[id].column_id),
               comment |-> ls[id].comment],
     updated_count |-> None, results |-> << >>]

\* -------------------------------------- update_category_percent_mapped
\* the filter shared by both counts
HasFieldName(l, category_id) ==
    /\ l.categoryid = category_id
    /\ l.field_name # None
    /\ l.field_name # Some("")

total_lines(ls, category_id) ==
    Cardinality({i \in DOMAIN ls : HasFieldName(ls[i], category_id)})

\* mutant: a line counts as mapped as soon as it has a table_id
mapped_lines_table_only(ls, category_id) ==
    Cardinality({i \in DOMAIN ls :
        HasFieldName(ls[i], category_id) /\ ls[i].table_id # None})

\* mutant: the mapped lines are counted without the field_name filter
mapped_lines_any_field_name(ls, category_id) ==
    Cardinality({i \in DOMAIN ls :
        /\ ls[i].categoryid = category_id
        /\ ls[i].table_id # None
        /\ ls[i].column_id # None})

mapped_lines(ls, category_id) ==
    Cardinality({i \in DOMAIN ls :
        /\ HasFieldName(ls[i], category_id)
        /\ ls[i].table_id # None
        /\ ls[i].column_id # None})

\* mutant: the share of the lines that are not mapped
percent_mapped_unmapped_share(ls, category_id) ==
    IF total_lines(ls, category_id) = 0
    THEN Zero
    ELSE Frac((total_lines(ls, category_id) - mapped_lines(ls, category_id)) * 100,
              total_lines(ls, category_id))

percent_mapped(ls, category_id) ==
    IF total_lines(ls, category_id) = 0
    THEN Zero
    ELSE Frac(mapped_lines(ls, category_id) * 100, total_lines(ls, category_id))

\* mutant: the computed percentage is added to the stored one
update_category_percent_mapped_accumulate(cats, ls, category_id) ==
    [c \in DOMAIN cats |->
        IF c = category_id
        THEN LET p == percent_mapped(ls, category_id)
                 q == cats[c].percent_mapped
             IN [cats[c] EXCEPT !.percent_mapped =
                     Frac(p.num * q.den + q.num * p.den, p.den * q.den)]
        ELSE cats[c]]

\* the UPDATE of the category row and its commit
update_category_percent_mapped(cats, ls, category_id) ==
    [c \in DOMAIN cats |->
        IF c = category_id
        THEN [cats[c] EXCEPT !.percent_mapped = percent_mapped(ls, category_id)]
        ELSE cats[c]]

\* ---------------------------------------------------------- update_line
\* mutant: "if line_data.comment:" (an empty comment is not applied)
ApplyComment_truthy(line, line_data) ==
    IF line_data.comment # None /\ line_data.comment # Some("")
    THEN [line EXCEPT !.comment = line_data.comment]
    ELSE line

\* "if line_data.comment is not None: existing_line.comment = ..."
ApplyComment(line, line_data) ==
    IF line_data.comment # None
    THEN [line EXCEPT !.comment = line_data.comment]
    ELSE line

\* mutant: only an absent table_id clears
IsTableClearing_none_only(line_data) == line_data.table_id = None

\* "if line_data.table_id is None or line_data.table_id == 0"
IsTableClearing(line_data) ==
    line_data.table_id = None \/ line_data.table_id = Some(0)

\* the result of a handler: the stored rows it leaves and its response
Outcome(cats, ls, response) ==
    [category |-> cats, lines |-> ls, resp |-> response]

\* mutant: the clearing branch returns without recomputing percent_mapped
ClearTableBranch_no_recompute(cats, ls, tables, cols, line_id, line) ==
    LET cleared == [line EXCEPT !.table_id = None, !.column_id = None]
        committed == [ls EXCEPT ![line_id] = cleared]
    IN Outcome(cats, committed,
               LineResponse(committed, tables, cols, line_id, "cleared_table_id"))

\* mutant: the clearing reaches every line of the line's category
ClearTableBranch_whole_category(cats, ls, tables, cols, line_id, line) ==
    LET committed ==
            [i \in DOMAIN ls |->
                IF i = line_id
                THEN [line EXCEPT !.table_id = None, !.column_id = None]
                ELSE IF ls[i].categoryid = line.categoryid
                THEN [ls[i] EXCEPT !.table_id = None, !.column_id = None]
                ELSE ls[i]]
    IN Outcome(update_category_percent_mapped(cats, committed, line.categoryid),
               committed,
               LineResponse(committed, tables, cols, line_id, "cleared_table_id"))

\* The table-clearing branch: both references are cleared and committed,
\* the owning category is recomputed, the reloaded line is returned.
ClearTableBranch(cats, ls, tables, cols, line_id, line) ==
    LET cleared == [line EXCEPT !.table_id = None, !.column_id = None]
        committed == [ls EXCEPT ![line_id] = cleared]
    IN Outcome(update_category_percent_mapped(cats, committed, cleared.categoryid),
               committed,
               LineResponse(committed, tables, cols, line_id, "cleared_table_id"))

\* mutant: the column is looked up but its table_id is not compared
ColumnBranch_no_table_check(line, line_data, cols) ==
    IF line_data.column_id = Some(0) \/ line_data.column_id = None
    THEN [status |-> 200, detail |-> "", line |-> [line EXCEPT !.column_id = None]]
    ELSE IF Val(line_data.column_id) \notin DOMAIN cols
    THEN [status |-> 404, detail |-> "ERP column not found", line |-> line]
    ELSE [status |-> 200, detail |-> "",
          line |-> [line EXCEPT !.column_id = line_data.column_id]]

\* The column_id logic on a line whose table_id has been assigned: the line
\* to commit, or the error that ends the request (status 200: no error).
ColumnBranch(line, line_data, cols) ==
    IF line_data.column_id = Some(0)
    THEN [status |-> 200, detail |-> "", line |-> [line EXCEPT !.column_id = None]]
    ELSE IF line_data.column_id # None
    THEN IF Val(line_data.column_id) \notin DOMAIN cols
         THEN [status |-> 404, detail |-> "ERP column not found", line |-> line]
         ELSE IF cols[Val(line_data.column_id)].table_id # line_data.table_id
         THEN [status |-> 400,
               detail |-> "Column does not belong to the specified table",
               line |-> line]
         ELSE [status |-> 200, detail |-> "",
               line |-> [line EXCEPT !.column_id = line_data.column_id]]
    ELSE [status |-> 200, detail |-> "", line |-> [line EXCEPT !.column_id = None]]

\* mutant: the action is not derived from the request
ActionOf_always_updated(line_data) == "updated"

\* action = "cleared_column_id" if line_data.column_id == 0 else "updated"
ActionOf(line_data) ==
    IF line_data.column_id = Some(0) THEN "cleared_column_id" ELSE "updated"

\* mutant: the table_id is not validated
TableExists_unchecked(tables, line_data) == TRUE

\* "table = db.query(ERPTable).filter(ERPTable.id == line_data.table_id)
\* .first()" found a row
TableExists(tables, line_data) == Val(line_data.table_id) \in DOMAIN tables

\* mutant: the table_id assignment is committed before the column is checked
SetTableBranch_commit_early(cats, ls, tables, cols, line_id, line, line_data) ==
    IF ~TableExists(tables, line_data)
    THEN Outcome(cats, ls, HTTPException(404, "ERP table not found"))
    ELSE LET tabled == [line EXCEPT !.table_id = line_data.table_id]
             col == ColumnBranch(tabled, line_data, cols)
             committed == [ls EXCEPT ![line_id] = col.line]
         IN IF col.status # 200
            THEN Outcome(cats, committed, HTTPException(col.status, col.detail))
            ELSE Outcome(
                   update_category_percent_mapped(cats, committed, col.line.categoryid),
                   committed,
                   LineResponse(committed, tables, cols, line_id, ActionOf(line_data)))

\* mutant: the column is looked up before the table
SetTableBranch_column_first(cats, ls, tables, cols, line_id, line, line_data) ==
    IF line_data.column_id \notin {None, Some(0)}
       /\ Val(line_data.column_id) \notin DOMAIN cols
    THEN Outcome(cats, ls, HTTPException(404, "ERP column not found"))
    ELSE IF ~TableExists(tables, line_data)
    THEN Outcome(cats, ls, HTTPException(404, "ERP table not found"))
    ELSE LET tabled == [line EXCEPT !.table_id = line_data.table_id]
             col == ColumnBranch(tabled, line_data, cols)
             committed == [ls EXCEPT ![line_id] = col.line]
         IN IF col.status # 200
            THEN Outcome(cats, ls, HTTPException(col.status, col.detail))
            ELSE Outcome(
                   update_category_percent_mapped(cats, committed, col.line.categoryid),
                   committed,
                   LineResponse(committed, tables, cols, line_id, ActionOf(line_data)))

\* The branch of a nonzero table_id.  An HTTPException leaves the session
\* without a commit: the assignments made so far are dropped when get_db
\* closes it, so the stored rows are those of before.
SetTableBranch(cats, ls, tables, cols, line_id, line, line_data) ==
    IF ~TableExists(tables, line_data)
    THEN Outcome(cats, ls, HTTPException(404, "ERP table not found"))
    ELSE LET tabled == [line EXCEPT !.table_id = line_data.table_id]
             col == ColumnBranch(tabled, line_data, cols)
             committed == [ls EXCEPT ![line_id] = col.line]
         IN IF col.status # 200
            THEN Outcome(cats, ls, HTTPException(col.status, col.detail))
            ELSE Outcome(
                   update_category_percent_mapped(cats, committed, col.line.categoryid),
                   committed,
                   LineResponse(committed, tables, cols, line_id, ActionOf(line_data)))

\* mutant: the comment is committed as soon as it is assigned
UpdateLine_comment_first(cats, ls, tables, cols, line_id, line_data) ==
    IF line_id \notin DOMAIN ls
    THEN Outcome(cats, ls, HTTPException(404, "Line not found"))
    ELSE LET existing_line == ApplyComment(ls[line_id], line_data)
             saved == [ls EXCEPT ![line_id] = existing_line]
         IN IF IsTableClearing(line_data)
            THEN ClearTableBranch(cats, ls, tables, cols, line_id, existing_line)
            ELSE SetTableBranch(cats, saved, tables, cols, line_id, existing_line,
                                line_data)

UpdateLine(cats, ls, tables, cols, line_id, line_data) ==
    IF line_id \notin DOMAIN ls
    THEN Outcome(cats, ls, HTTPException(404, "Line not found"))
    ELSE LET existing_line == ApplyComment(ls[line_id], line_data)
         IN IF IsTableClearing(line_data)
            THEN ClearTableBranch(cats, ls, tables, cols, line_id, existing_line)
            ELSE SetTableBranch(cats, ls, tables, cols, line_id, existing_line,
                                line_data)

\* ------------------------------------------------------ persistence faults
\* where the database may fail a request that passed its checks: at the
\* commit of the line, or in update_category_percent_mapped after it
Faults == {"none", "line_commit", "percent_commit"}

\* update_line when the database fails.  The exception leaves the handler
\* (answered 500) and get_db closes the session, which drops what was not
\* committed: at "line_commit" the line change, at "percent_commit" only the
\* percent_mapped, the line having been committed by the db.commit() before.
UpdateLineUnder(cats, ls, tables, cols, line_id, line_data, fault) ==
    LET out == UpdateLine(cats, ls, tables, cols, line_id, line_data)
    IN IF fault = "none" \/ out.resp.status # 200 THEN out
       ELSE IF fault = "line_commit"
       THEN Outcome(cats, ls, HTTPException(500, "Internal Server Error"))
       ELSE Outcome(cats, out.lines, HTTPException(500, "Internal Server Error"))

\* ------------------------------------------ recalculate_all_percent_mapped
RECURSIVE RecalculateFrom(_, _, _)
RecalculateFrom(cats, ls, todo) ==
    IF todo = {} THEN cats
    ELSE LET c == CHOOSE x \in todo : \A y \in todo : x <= y
         IN RecalculateFrom(update_category_percent_mapped(cats, ls, c), ls,
                            todo \ {c})

\* mutant: updated_count counts the categories that have lines
RecalculateAll_count_nonempty(cats, ls) ==
    Outcome(RecalculateFrom(cats, ls, DOMAIN cats), ls,
            [status |-> 200, detail |-> "", action |-> "", body |-> NoBody,
             updated_count |->
                 Some(Cardinality({c \in DOMAIN cats : total_lines(ls, c) > 0})),
             results |-> << >>])

RecalculateAll(cats, ls) ==
    Outcome(RecalculateFrom(cats, ls, DOMAIN cats), ls,
            [status |-> 200, detail |-> "", action |-> "", body |-> NoBody,
             updated_count |-> Some(Cardinality(DOMAIN cats)), results |-> << >>])

\* recalculate_all_percent_mapped when the database fails in the loop: the
\* categories in done (those the loop has passed, in the order the query
\* returned them) have been updated and committed one by one, the others
\* are as before, the request is answered 500.
RecalculateAllUnder(cats, ls, fault, done) ==
    IF fault = "none" THEN RecalculateAll(cats, ls)
    ELSE Outcome(RecalculateFrom(cats, ls, done), ls,
                 HTTPException(500, "Internal Server Error"))

\* -------------------------------------------------------- search_columns
\* "query(ERPColumn, ERPTable).join(ERPTable, ERPColumn.table_id ==
\* ERPTable.id)": the columns that have a table
JoinedColumns(cols, tables) ==
    {c \in DOMAIN cols :
        cols[c].table_id # None /\ Val(cols[c].table_id) \in DOMAIN tables}

\* the orders in which the query may return the joined rows (no ORDER BY)
ScanOrders(cols, tables) ==
    LET ids == JoinedColumns(cols, tables)
        n == Cardinality(ids)
    IN {scan \in [1..n -> ids] : \A i, j \in 1..n : scan[i] = scan[j] => i = j}

\* mutant: the column name is compared as stored, not lowercased
MatchType_case_sensitive(column_name, search_term) ==
    IF column_name = search_term THEN "exact"
    ELSE IF Contains(column_name, search_term) THEN "partial"
    ELSE "none"

\* the two tests of the loop body, on one column name
MatchType(column_name, search_term) ==
    LET column_name_lower == Lower(column_name)
    IN IF column_name_lower = search_term THEN "exact"
       ELSE IF Contains(column_name_lower, search_term) THEN "partial"
       ELSE "none"

ColumnSearchResult(cols, tables, c, match_type) ==
    [column_name |-> cols[c].name,
     table_name |-> tables[Val(cols[c].table_id)].name,
     column_id |-> c,
     table_id |-> Val(cols[c].table_id),
     match_type |-> match_type]

\* "for column, table in columns": the matches of one kind, in scan order
RECURSIVE Matches(_, _, _, _, _)
Matches(cols, tables, scan, search_term, match_type) ==
    IF scan = << >> THEN << >>
    ELSE LET rest == Matches(cols, tables, Tail(scan), search_term, match_type)
         IN IF MatchType(cols[Head(scan)].name, search_term) = match_type
            THEN <<ColumnSearchResult(cols, tables, Head(scan), match_type)>> \o rest
            ELSE rest

\* mutant: the two lists are joined the other way round
SearchResponse_partial_first(exact_matches, partial_matches) ==
    partial_matches \o exact_matches

\* "return exact_matches + partial_matches"
SearchResponse(exact_matches, partial_matches) ==
    exact_matches \o partial_matches

\* mutant: only the empty string is rejected ("if not columnName")
IsBlankTerm_empty_only(columnName) == columnName = << >>

\* "if not columnName or not columnName.strip()"
IsBlankTerm(columnName) == columnName = << >> \/ Strip(columnName) = << >>

SearchColumns(cols, tables, scan, columnName) ==
    IF IsBlankTerm(columnName)
    THEN HTTPException(400, "columnName parameter is required and cannot be empty")
    ELSE LET search_term == Lower(Strip(columnName))
         IN [HTTPException(200, "") EXCEPT
                !.results = SearchResponse(
                    Matches(cols, tables, scan, search_term, "exact"),
                    Matches(cols, tables, scan, search_term, "partial"))]

\* ---------------------------------------------------- find_table_matches
\* ord() of the characters that occur in names
CharCode(c) ==
    IF c = " " THEN 32 ELSE IF c = "A" THEN 65 ELSE IF c = "B" THEN 66
    ELSE IF c = "a" THEN 97 ELSE 98

\* Python's "<" on strings: lexicographic by code point
RECURSIVE StrLess(_, _)
StrLess(s, t) ==
    IF t = << >> THEN FALSE
    ELSE IF s = << >> THEN TRUE
    ELSE IF Head(s) # Head(t) THEN CharCode(Head(s)) < CharCode(Head(t))
    ELSE StrLess(Tail(s), Tail(t))

\* mutant: blank elements are not filtered out
NormalizeNames_keep_blank(column_names) ==
    [k \in 1..Len(column_names) |-> Lower(Strip(column_names[k]))]

\* "[col.strip().lower() for col in request.column_names if col.strip()]"
NormalizeNames(column_names) ==
    LET kept == SelectSeq(column_names, LAMBDA col : Strip(col) # << >>)
    IN [k \in 1..Len(kept) |-> Lower(Strip(kept[k]))]

\* mutant: a column also matches when its name contains a candidate
NameMatches_partial(column_name, names) ==
    \E k \in 1..Len(names) : Contains(Lower(column_name), names[k])

\* "column_name_lower in search_columns"
NameMatches(column_name, names) ==
    \E k \in 1..Len(names) : Lower(column_name) = names[k]

\* table.columns: the columns whose table_id is the table's id
ColumnsOf(cols, t) == {c \in DOMAIN cols : cols[c].table_id = Some(t)}

\* the matched column names of a table, in id order of its columns
RECURSIVE MatchedColumns(_, _, _, _)
MatchedColumns(cols, t, names, from) ==
    IF from > Len(cols) THEN << >>
    ELSE IF from \in ColumnsOf(cols, t) /\ NameMatches(cols[from].name, names)
    THEN <<cols[from].name>> \o MatchedColumns(cols, t, names, from + 1)
    ELSE MatchedColumns(cols, t, names, from + 1)

TableMatchResult(cols, tables, t, names) ==
    LET matched_columns == MatchedColumns(cols, t, names, 1)
    IN [table_id |-> t, table_name |-> tables[t].name,
        match_count |-> Len(matched_columns),
        matched_columns |-> matched_columns]

\* "for table in tables": the tables with a match, in scan order
RECURSIVE TableMatches(_, _, _, _)
TableMatches(cols, tables, scan, names) ==
    IF scan = << >> THEN << >>
    ELSE LET m == TableMatchResult(cols, tables, Head(scan), names)
             rest == TableMatches(cols, tables, Tail(scan), names)
         IN IF m.match_count > 0 THEN <<m>> \o rest ELSE rest

\* mutant: sorted by match count only
SortKeyLess_count_only(a, b) == a.match_count > b.match_count

\* the order of the keys (-x.match_count, x.table_name)
SortKeyLess(a, b) ==
    \/ a.match_count > b.match_count
    \/ a.match_count = b.match_count /\ StrLess(a.table_name, b.table_name)

\* x put into a sorted list, behind the entries that are not greater
RECURSIVE InsertSorted(_, _)
InsertSorted(x, sorted) ==
    IF sorted = << >> THEN <<x>>
    ELSE IF SortKeyLess(x, Head(sorted)) THEN <<x>> \o sorted
    ELSE <<Head(sorted)>> \o InsertSorted(x, Tail(sorted))

\* list.sort(key = ...): a stable sort
RECURSIVE SortMatches(_)
SortMatches(table_matches) ==
    IF table_matches = << >> THEN << >>
    ELSE InsertSorted(table_matches[Len(table_matches)],
                      SortMatches(SubSeq(table_matches, 1, Len(table_matches) - 1)))

FindTableMatches(cols, tables, scan, column_names) ==
    IF column_names = << >>
    THEN HTTPException(400, "column_names list cannot be empty")
    ELSE LET names == NormalizeNames(column_names)
         IN IF names = << >>
            THEN HTTPException(400, "No valid column names provided")
            ELSE [HTTPException(200, "") EXCEPT
                     !.results = SortMatches(TableMatches(cols, tables, scan, names))]

\* ------------------------------------------------- generate_mapped_schema
\* "filter(Lines.table_id.isnot(None), Lines.column_id.isnot(None))"
MappedLineIds(ls) ==
    {i \in DOMAIN ls : ls[i].table_id # None /\ ls[i].column_id # None}

\* the orders in which the query may return the mapped lines (no ORDER BY)
LineScanOrders(ls) ==
    LET ids == MappedLineIds(ls)
        n == Cardinality(ids)
    IN {scan \in [1..n -> ids] : \A i, j \in 1..n : scan[i] = scan[j] => i = j}

\* "if line.reason is not None and line.reason.strip()"
HasReason(line) == line.reason # None /\ Strip(Val(line.reason)) # << >>

\* the constraint flags of a column entry
Constraints(column) ==
    [not_null |-> IF column.not_null # None THEN Val(column.not_null) ELSE FALSE,
     primary_key |-> IF column.primary_key # None THEN Val(column.primary_key)
                     ELSE FALSE,
     unique |-> IF column.unique # None THEN Val(column.unique) ELSE FALSE,
     default |-> column.default]

\* the entry of a column, made from the line that introduces it
ColumnEntry(column, line) ==
    [name |-> column.name,
     type |-> IF column.type # None /\ column.type # Some("")
              THEN column.type ELSE Some("unknown"),
     constraints |-> Constraints(column),
     comment |-> column.comment,
     description |-> IF HasReason(line) THEN line.reason ELSE None]

\* "table.description or f'Table {table_name}'"
TableDescription(table) ==
    IF table.description # None /\ table.description # Some(<< >>)
    THEN Val(table.description)
    ELSE <<"T", "a", "b", "l", "e", " ">> \o table.name

\* mutant: a column is entered once per line that maps to it
HasColumn_never(columns, column_name) == FALSE

\* "column_name in tables_dict[table_name]['columns']"
HasColumn(columns, column_name) ==
    \E j \in 1..Len(columns) : columns[j].name = column_name

\* tables_dict after one more line; a dict keeps its keys in insertion
\* order, so it is a sequence of entries with distinct names
AddLine(tables_dict, tables, cols, line) ==
    IF Val(line.table_id) \notin DOMAIN tables \/ Val(line.column_id) \notin DOMAIN cols
    THEN tables_dict
    ELSE LET table == tables[Val(line.table_id)]
             column == cols[Val(line.column_id)]
             known == \E k \in 1..Len(tables_dict) : tables_dict[k].name = table.name
             with_table ==
                 IF known THEN tables_dict
                 ELSE Append(tables_dict,
                             [name |-> table.name,
                              description |-> TableDescription(table),
                              columns |-> << >>])
         IN [k \in 1..Len(with_table) |->
                IF with_table[k].name = table.name
                   /\ ~HasColumn(with_table[k].columns, column.name)
                THEN [with_table[k] EXCEPT
                         !.columns = Append(@, ColumnEntry(column, line))]
                ELSE with_table[k]]

\* "for line in mapped_lines"
RECURSIVE ScanLines(_, _, _, _, _)
ScanLines(tables_dict, ls, tables, cols, scan) ==
    IF scan = << >> THEN tables_dict
    ELSE ScanLines(AddLine(tables_dict, tables, cols, ls[Head(scan)]),
                   ls, tables, cols, Tail(scan))

\* x put into a list sorted by name, behind the entries that are not greater
RECURSIVE InsertByName(_, _)
InsertByName(x, sorted) ==
    IF sorted = << >> THEN <<x>>
    ELSE IF StrLess(x.name, Head(sorted).name) THEN <<x>> \o sorted
    ELSE <<Head(sorted)>> \o InsertByName(x, Tail(sorted))

\* tables_list.sort(key = lambda x: x["name"])
RECURSIVE SortByName(_)
SortByName(tables_list) ==
    IF tables_list = << >> THEN << >>
    ELSE InsertByName(tables_list[Len(tables_list)],
                      SortByName(SubSeq(tables_list, 1, Len(tables_list) - 1)))

RECURSIVE SumColumns(_)
SumColumns(tables_list) ==
    IF tables_list = << >> THEN 0
    ELSE Len(Head(tables_list).columns) + SumColumns(Tail(tables_list))

\* the schema document (generated_at, the time of the call, is left out)
generate_mapped_schema(ls, tables, cols, scan) ==
    LET tables_list == SortByName(ScanLines(<< >>, ls, tables, cols, scan))
    IN [tables |-> tables_list,
        total_tables |-> Len(tables_list),
        total_mapped_columns |-> SumColumns(tables_list)]

\* download_schema: the document as the content of the response
DownloadSchema(ls, tables, cols, scan) ==
    [HTTPException(200, "") EXCEPT
        !.results = <<generate_mapped_schema(ls, tables, cols, scan)>>]

\* --------------------------------------------- update_sub_category_comment
\* the SubCategory row as the response returns it
SubCategoryResponse(subs, id) ==
    [HTTPException(200, "") EXCEPT
        !.results = <<[id |-> id, name |-> subs[id].name,
                       category_id |-> subs[id].category_id,
                       comment |-> subs[id].comment]>>]

\* mutant: the sub-category is looked up by its id alone
SubCategoryFound_any_category(subs, category_id, sub_category_id) ==
    sub_category_id \in DOMAIN subs

\* "filter(SubCategory.id == sub_category_id,
\* SubCategory.category_id == category_id).first()" found a row
SubCategoryFound(subs, category_id, sub_category_id) ==
    /\ sub_category_id \in DOMAIN subs
    /\ subs[sub_category_id].category_id = category_id

UpdateSubCategoryComment(cats, subs, category_id, sub_category_id, sub_category_data) ==
    IF category_id \notin DOMAIN cats
    THEN [sub_category |-> subs, resp |-> HTTPException(404, "Category not found")]
    ELSE IF ~SubCategoryFound(subs, category_id, sub_category_id)
    THEN [sub_category |-> subs,
          resp |-> HTTPException(404, "Sub-category not found")]
    ELSE LET committed ==
                 IF sub_category_data.comment # None
                 THEN [subs EXCEPT ![sub_category_id].comment =
                                       sub_category_data.comment]
                 ELSE subs
         IN [sub_category |-> committed,
             resp |-> SubCategoryResponse(committed, sub_category_id)]

\* ------------------------------------------------------ the read handlers
\* Category.seq_no and SubCategory.seq_no, the columns the lists are ordered
\* by; no handler writes them.  The categories are numbered against their
\* ids; sub-category 1 has none.
CategorySeqNo(id) == Some(0 - id)

SubCategorySeqNo(id) == IF id = 1 THEN None ELSE Some(0 - id)

\* ids in ascending order of rank, equal ranks by id
RECURSIVE OrderBy(_, _)
OrderBy(ids, rank) ==
    IF ids = {} THEN << >>
    ELSE LET first == CHOOSE x \in ids :
                          \A y \in ids :
                              \/ rank[x] < rank[y]
                              \/ rank[x] = rank[y] /\ x <= y
         IN <<first>> \o OrderBy(ids \ {first}, rank)

Rows(response, rows) == [response EXCEPT !.results = rows]

CategoryRow(cats, id) ==
    [id |-> id, Name |-> cats[id].Name, percent_mapped |-> cats[id].percent_mapped]

\* "query(Category).order_by(Category.seq_no).all()"
GetCategories(cats) ==
    LET ordered == OrderBy(DOMAIN cats, [c \in DOMAIN cats |-> Val(CategorySeqNo(c))])
    IN Rows(HTTPException(200, ""),
            [k \in 1..Len(ordered) |-> CategoryRow(cats, ordered[k])])

\* mutant: the category is recomputed when it is read
GetCategory_recalculate(cats, ls, category_id) ==
    IF category_id \notin DOMAIN cats
    THEN Outcome(cats, ls, HTTPException(404, "Category not found"))
    ELSE LET fresh == update_category_percent_mapped(cats, ls, category_id)
         IN Outcome(fresh, ls,
                    Rows(HTTPException(200, ""), <<CategoryRow(fresh, category_id)>>))

GetCategory(cats, ls, category_id) ==
    IF category_id \notin DOMAIN cats
    THEN Outcome(cats, ls, HTTPException(404, "Category not found"))
    ELSE Outcome(cats, ls,
                 Rows(HTTPException(200, ""), <<CategoryRow(cats, category_id)>>))

\* "order_by(SubCategory.seq_no.nulls_last(), SubCategory.id)"
GetSubCategoriesByCategory(cats, subs, category_id) ==
    IF category_id \notin DOMAIN cats
    THEN HTTPException(404, "Category not found")
    ELSE LET ids == {s \in DOMAIN subs : subs[s].category_id = category_id}
             numbered == {s \in ids : SubCategorySeqNo(s) # None}
             ordered ==
                 OrderBy(numbered, [s \in numbered |-> Val(SubCategorySeqNo(s))])
                 \o OrderBy(ids \ numbered, [s \in ids \ numbered |-> 0])
         IN Rows(HTTPException(200, ""),
                 [k \in 1..Len(ordered) |->
                     SubCategoryResponse(subs, ordered[k]).results[1]])

GetSubCategory(cats, subs, category_id, sub_category_id) ==
    IF category_id \notin DOMAIN cats
    THEN HTTPException(404, "Category not found")
    ELSE IF ~SubCategoryFound(subs, category_id, sub_category_id)
    THEN HTTPException(404, "Sub-category not found")
    ELSE SubCategoryResponse(subs, sub_category_id)

\* "filter(Lines.categoryid == category_id).order_by(Lines.id)", each line
\* with the names of its table and column
GetLinesByCategory(cats, ls, tables, cols, category_id) ==
    IF category_id \notin DOMAIN cats
    THEN HTTPException(404, "Category not found")
    ELSE LET ids == {i \in DOMAIN ls : ls[i].categoryid = category_id}
             ordered == OrderBy(ids, [i \in ids |-> i])
         IN Rows(HTTPException(200, ""),
                 [k \in 1..Len(ordered) |->
                     [id |-> ordered[k],
                      categoryid |-> ls[ordered[k]].categoryid,
                      field_name |-> ls[ordered[k]].field_name,
                      reason |-> ls[ordered[k]].reason,
                      comment |-> ls[ordered[k]].comment,
                      table_id |-> ls[ordered[k]].table_id,
                      column_id |-> ls[ordered[k]].column_id,
                      table_name |-> JoinedName(tables, ls[ordered[k]].table_id),
                      column_name |-> JoinedName(cols, ls[ordered[k]].column_id)]])

\* "query(ERPTable).all()", in the order the query returns the rows
GetErpTables(tables, scan) ==
    Rows(HTTPException(200, ""),
         [k \in 1..Len(scan) |->
             [id |-> scan[k], name |-> tables[scan[k]].name,
              description |-> tables[scan[k]].description]])

\* the orders in which the columns of table t may be returned
ColumnScanOrders(cols, t) ==
    LET ids == ColumnsOf(cols, t)
        n == Cardinality(ids)
    IN {scan \in [1..n -> ids] : \A i, j \in 1..n : scan[i] = scan[j] => i = j}

GetErpColumnsByTable(tables, cols, table_id, scan) ==
    IF table_id \notin DOMAIN tables
    THEN HTTPException(404, "ERP table not found")
    ELSE Rows(HTTPException(200, ""),
              [k \in 1..Len(scan) |->
                  [id |-> scan[k], name |-> cols[scan[k]].name,
                   comment |-> cols[scan[k]].comment, type |-> cols[scan[k]].type,
                   table_id |-> cols[scan[k]].table_id]])

\* -------------------------------------------------------------- requests
NoRequest ==
    [op |-> "none", line_id |-> 0,
     line_data |-> [table_id |-> None, column_id |-> None, comment |-> None],
     columnName |-> << >>, column_names |-> << >>, scan |-> << >>,
     fault |-> "none", done |-> {}, table_id |-> 0, category_id |-> 0, sub_category_id |-> 0,
     sub_category_data |-> [comment |-> None]]

NoResponse == HTTPException(0, "")

\* what a client may send: ids that exist, 0, and one id that names nothing
OptionalOf(S) == {None} \cup {Some(v) : v \in S}
RequestLineIds == 1..(NumLines + 1)
RequestTableIds == OptionalOf(0..3)
RequestColumnIds == OptionalOf(0..2)
\* the empty comment is the one "is not None" and truthiness disagree on
RequestComments == OptionalOf({""})

LineCreate ==
    [table_id : RequestTableIds, column_id : RequestColumnIds,
     comment : RequestComments]

\* the stored sub-categories: two of category 1, one of category 2
SeedSubCategories ==
    <<[name |-> "s1", category_id |-> 1, comment |-> None],
      [name |-> "s2", category_id |-> 2, comment |-> Some("c")],
      [name |-> "s3", category_id |-> 1, comment |-> Some("")]>>

\* --------------------------------------------- concurrent update_line
\* The processes (Lambda instances, server workers) that may each handle an
\* update_line request at the same time, each in a session of its own.
Workers == {1, 2}

NoLine ==
    [categoryid |-> 0, field_name |-> None, table_id |-> None,
     column_id |-> None, comment |-> None, reason |-> None]

\* a worker before its request: pc is the place of the handler it is at
NoWorker ==
    [pc |-> "start", line_id |-> 0,
     line_data |-> [table_id |-> None, column_id |-> None, comment |-> None],
     loaded |-> NoLine, intended |-> NoLine, total |-> 0, mapped |-> 0,
     resp |-> NoResponse]

NoWorkers == [w \in Workers |-> NoWorker]

\* The UPDATE the session flushes at db.commit(): it sets the attributes
\* whose value differs from the one loaded, and leaves the others as stored.
WriteChanged(stored, loaded, intended) ==
    [stored EXCEPT
        !.table_id = IF intended.table_id # loaded.table_id
                     THEN intended.table_id ELSE @,
        !.column_id = IF intended.column_id # loaded.column_id
                      THEN intended.column_id ELSE @,
        !.comment = IF intended.comment # loaded.comment
                    THEN intended.comment ELSE @]

\* "percent_mapped = (mapped_lines / total_lines) * 100.0", 0.0 for no lines
PercentOf(mapped, total) ==
    IF total = 0 THEN Zero ELSE Frac(mapped * 100, total)

\* ----------------------------------------------------------------- Init
\* A seeded line is unmapped or mapped to column 1 of table 2; percent_mapped
\* has the column default 0.0 (it is stale where a seeded line is mapped).
SeedLine(i, mapped) ==
    [categoryid |-> SeedCategory(i), field_name |-> SeedFieldName(i),
     table_id |-> IF mapped THEN Some(2) ELSE None,
     column_id |-> IF mapped THEN Some(1) ELSE None,
     comment |-> IF i = 1 THEN Some("c") ELSE None,
     reason |-> None]

Init ==
    /\ category = [c \in CategoryIds |-> [Name |-> c, percent_mapped |-> Zero]]
    /\ \E m \in SUBSET LineIds : lines = [i \in LineIds |-> SeedLine(i, i \in m)]
    /\ erp_table = MappingTables
    /\ erp_column = MappingColumns
    /\ session = "closed"
    /\ req = NoRequest
    /\ resp = NoResponse
    /\ sub_category = SeedSubCategories
    /\ worker = NoWorkers

\* -------------------------------------------------------------- actions
\* A handler runs in the session get_db opened for it.
Handle(request, out) ==
    /\ session = "closed"
    /\ session' = "open"
    /\ req' = request
    /\ category' = out.category
    /\ lines' = out.lines
    /\ resp' = out.resp
    /\ UNCHANGED <<sub_category, erp_table, erp_column, worker>>

\* the same for the handler that writes sub-categories (and nothing else)
HandleSubCategory(request, out) ==
    /\ session = "closed"
    /\ session' = "open"
    /\ req' = request
    /\ sub_category' = out.sub_category
    /\ resp' = out.resp
    /\ UNCHANGED <<category, lines, erp_table, erp_column, worker>>

update_line ==
    \E line_id \in RequestLineIds, line_data \in LineCreate :
        Handle([NoRequest EXCEPT !.op = "update_line", !.line_id = line_id,
                                 !.line_data = line_data],
               UpdateLine(category, lines, erp_table, erp_column, line_id,
                          line_data))

recalculate_all_percent_mapped ==
    Handle([NoRequest EXCEPT !.op = "recalculate_all_percent_mapped"],
           RecalculateAll(category, lines))

\* mutant: db.close() after the yield without try/finally, so a handler
\* that raised ends its request with the session left open
get_db_close_unless_raised ==
    /\ session = "open"
    /\ session' = IF resp.status = 200 THEN "closed" ELSE "open"
    /\ req' = NoRequest
    /\ resp' = NoResponse
    /\ UNCHANGED <<category, sub_category, lines, erp_table, erp_column, worker>>

\* get_db's "finally: db.close()": the request is over.
get_db_close ==
    /\ session = "open"
    /\ session' = "closed"
    /\ req' = NoRequest
    /\ resp' = NoResponse
    /\ UNCHANGED <<category, sub_category, lines, erp_table, erp_column, worker>>

Next ==
    \/ update_line
    \/ recalculate_all_percent_mapped
    \/ get_db_close

Spec == Init /\ [][Next]_vars

\* ---------------------------------------------- the search specification
\* ERP metadata of the searches: names that agree up to case, names that
\* contain one another, and a column without a table.
SearchTables == MappingTables

SearchColumnRows ==
    <<[name |-> <<"a", "b">>, table_id |-> Some(1)],
      [name |-> <<"b", "a", "b">>, table_id |-> Some(2)],
      [name |-> <<"A", "B">>, table_id |-> Some(2)],
      [name |-> <<"a", "a", "B">>, table_id |-> Some(1)],
      [name |-> <<"a", "b">>, table_id |-> None]>>

InitSearch ==
    /\ category = [c \in CategoryIds |-> [Name |-> c, percent_mapped |-> Zero]]
    /\ lines = [i \in LineIds |-> SeedLine(i, FALSE)]
    /\ erp_table = SearchTables
    /\ erp_column = SearchColumnRows
    /\ session = "closed"
    /\ req = NoRequest
    /\ resp = NoResponse
    /\ sub_category = SeedSubCategories
    /\ worker = NoWorkers

search_columns ==
    \E columnName \in StringsUpTo(MaxTermLen),
       scan \in ScanOrders(erp_column, erp_table) :
        Handle([NoRequest EXCEPT !.op = "search_columns",
                                 !.columnName = columnName, !.scan = scan],
               Outcome(category, lines,
                       SearchColumns(erp_column, erp_table, scan, columnName)))

NextSearch ==
    \/ search_columns
    \/ get_db_close

SpecSearch == InitSearch /\ [][NextSearch]_vars

\* ------------------------------------------- the table-match specification
MaxNames == 2

\* ERP metadata of the table matches: names that agree up to case, a name
\* that contains another, an empty name; table names whose order is not the
\* order of the ids.  (Names are taken as set: a NULL name is not modelled.)
MatchTables ==
    <<[name |-> <<"b">>, description |-> None],
      [name |-> <<"a", "b">>, description |-> None],
      [name |-> <<"B">>, description |-> None]>>

MatchColumnRows ==
    <<[name |-> <<"a", "b">>, table_id |-> Some(1)],
      [name |-> <<"A", "B">>, table_id |-> Some(2)],
      [name |-> <<"b">>, table_id |-> Some(2)],
      [name |-> <<"a", "a", "b">>, table_id |-> Some(3)],
      [name |-> <<"B">>, table_id |-> Some(3)],
      [name |-> << >>, table_id |-> Some(1)]>>

\* the candidate names a client sends
CandidateNames ==
    {<< >>, <<" ">>, <<"a">>, <<"b">>, <<"a", "b">>, <<" ", "A", "b">>}

RECURSIVE ListsUpTo(_, _)
ListsUpTo(S, n) ==
    IF n = 0 THEN {<< >>}
    ELSE LET shorter == ListsUpTo(S, n - 1)
         IN shorter \cup {Append(l, x) : l \in shorter, x \in S}

\* the orders in which "query(ERPTable).all()" may return the tables
TableScanOrders(tables) ==
    LET n == Len(tables)
    IN {scan \in [1..n -> 1..n] : \A i, j \in 1..n : scan[i] = scan[j] => i = j}

InitMatch ==
    /\ category = [c \in CategoryIds |-> [Name |-> c, percent_mapped |-> Zero]]
    /\ lines = [i \in LineIds |-> SeedLine(i, FALSE)]
    /\ erp_table = MatchTables
    /\ erp_column = MatchColumnRows
    /\ session = "closed"
    /\ req = NoRequest
    /\ resp = NoResponse
    /\ sub_category = SeedSubCategories
    /\ worker = NoWorkers

find_table_matches ==
    \E column_names \in ListsUpTo(CandidateNames, MaxNames),
       scan \in TableScanOrders(erp_table) :
        Handle([NoRequest EXCEPT !.op = "find_table_matches",
                                 !.column_names = column_names, !.scan = scan],
               Outcome(category, lines,
                       FindTableMatches(erp_column, erp_table, scan, column_names)))

NextMatch ==
    \/ find_table_matches
    \/ get_db_close

SpecMatch == InitMatch /\ [][NextMatch]_vars

\* -------------------------------------------- the specification with faults
\* the requests sent while the database may fail: those that name ids (the
\* 0 and the comment edits add no further outcome of a fault)
FaultLineCreate ==
    {d \in LineCreate :
        d.table_id # Some(0) /\ d.column_id # Some(0) /\ d.comment = None}

update_line_under_fault ==
    \E line_id \in RequestLineIds, line_data \in FaultLineCreate, fault \in Faults :
        Handle([NoRequest EXCEPT !.op = "update_line", !.line_id = line_id,
                                 !.line_data = line_data, !.fault = fault],
               UpdateLineUnder(category, lines, erp_table, erp_column, line_id,
                               line_data, fault))

recalculate_under_fault ==
    \E fault \in {"none", "percent_commit"} :
        \E done \in IF fault = "none" THEN {{}}
                    ELSE (SUBSET DOMAIN category) \ {DOMAIN category} :
            Handle([NoRequest EXCEPT !.op = "recalculate_all_percent_mapped",
                                     !.fault = fault, !.done = done],
                   RecalculateAllUnder(category, lines, fault, done))

NextFault ==
    \/ update_line_under_fault
    \/ recalculate_under_fault
    \/ get_db_close

SpecFault == Init /\ [][NextFault]_vars

\* ------------------------------------------------ the schema specification
\* Two tables whose names are in the reverse order of their ids; columns
\* "a" and "b" of table 1 and a column "a" of table 2.
SchemaTables ==
    <<[name |-> <<"b">>, description |-> None],
      [name |-> <<"a">>, description |-> Some(<<"A">>)]>>

SchemaColumn(name, table_id, type, key) ==
    [name |-> name, table_id |-> Some(table_id), type |-> type, comment |-> None,
     not_null |-> key, primary_key |-> key, unique |-> None, default |-> None]

SchemaColumnRows ==
    <<SchemaColumn(<<"a">>, 1, Some("int"), Some(TRUE)),
      SchemaColumn(<<"b">>, 1, None, None),
      SchemaColumn(<<"a">>, 2, Some("text"), Some(FALSE))>>

\* what a stored line may hold: no mapping, a table only, or a column of
\* its table, with a reason that is NULL, blank or one of two texts
SchemaLineChoices ==
    {[table_id |-> None, column_id |-> None, reason |-> None],
     [table_id |-> Some(1), column_id |-> None, reason |-> Some(<<"a">>)],
     [table_id |-> Some(2), column_id |-> Some(3), reason |-> None]}
    \cup {[table_id |-> Some(1), column_id |-> Some(1), reason |-> r] :
            r \in {None, Some(<<" ">>), Some(<<"a">>), Some(<<"b">>)}}
    \cup {[table_id |-> Some(1), column_id |-> Some(2), reason |-> r] :
            r \in {None, Some(<<"a">>)}}

InitSchema ==
    /\ category = [c \in CategoryIds |-> [Name |-> c, percent_mapped |-> Zero]]
    /\ \E choice \in [LineIds -> SchemaLineChoices] :
          lines = [i \in LineIds |->
                      [SeedLine(i, FALSE) EXCEPT
                          !.table_id = choice[i].table_id,
                          !.column_id = choice[i].column_id,
                          !.reason = choice[i].reason]]
    /\ erp_table = SchemaTables
    /\ erp_column = SchemaColumnRows
    /\ session = "closed"
    /\ req = NoRequest
    /\ resp = NoResponse
    /\ sub_category = SeedSubCategories
    /\ worker = NoWorkers

download_schema ==
    \E scan \in LineScanOrders(lines) :
        Handle([NoRequest EXCEPT !.op = "download_schema", !.scan = scan],
               Outcome(category, lines,
                       DownloadSchema(lines, erp_table, erp_column, scan)))

NextSchema ==
    \/ download_schema
    \/ get_db_close

SpecSchema == InitSchema /\ [][NextSchema]_vars

\* ------------------------------------------ the sub-category specification
\* the body of the PATCH: a comment, which may be absent, and no name
SubCategoryUpdate == [comment : OptionalOf({"", "c", "d"})]

update_sub_category_comment ==
    \E category_id \in 1..(NumCategories + 1),
       sub_category_id \in 1..(Len(sub_category) + 1),
       sub_category_data \in SubCategoryUpdate :
        HandleSubCategory(
            [NoRequest EXCEPT !.op = "update_sub_category_comment",
                              !.category_id = category_id,
                              !.sub_category_id = sub_category_id,
                              !.sub_category_data = sub_category_data],
            UpdateSubCategoryComment(category, sub_category, category_id,
                                     sub_category_id, sub_category_data))

NextSub ==
    \/ update_sub_category_comment
    \/ get_db_close

SpecSub == Init /\ [][NextSub]_vars

\* --------------------------------------- the specification of concurrency
\* the requests of the concurrent workers: tables 1 and 2, column 1, no
\* comment
RaceLineCreate ==
    {d \in LineCreate :
        d.table_id \in {None, Some(1), Some(2)}
        /\ d.column_id \in {None, Some(1)} /\ d.comment = None}

\* The handler loads the line, validates the request against the ERP rows
\* and assigns the new values in memory; an HTTPException ends the request.
race_load(w) ==
    /\ worker[w].pc = "start"
    /\ \E line_id \in RequestLineIds, line_data \in RaceLineCreate :
          LET out == UpdateLine(category, lines, erp_table, erp_column, line_id,
                                line_data)
          IN worker' = [worker EXCEPT ![w] =
                IF out.resp.status # 200
                THEN [@ EXCEPT !.pc = "done", !.line_id = line_id,
                               !.line_data = line_data, !.resp = out.resp]
                ELSE [@ EXCEPT !.pc = "loaded", !.line_id = line_id,
                               !.line_data = line_data,
                               !.loaded = lines[line_id],
                               !.intended = out.lines[line_id]]]
    /\ UNCHANGED <<category, sub_category, lines, erp_table, erp_column, session,
                   req, resp>>

\* db.commit() of the line
race_commit_line(w) ==
    /\ worker[w].pc = "loaded"
    /\ lines' = [lines EXCEPT ![worker[w].line_id] =
                    WriteChanged(@, worker[w].loaded, worker[w].intended)]
    /\ worker' = [worker EXCEPT ![w].pc = "committed"]
    /\ UNCHANGED <<category, sub_category, erp_table, erp_column, session, req,
                   resp>>

\* update_category_percent_mapped: the query of total_lines
race_count_total(w) ==
    /\ worker[w].pc = "committed"
    /\ LET total == total_lines(lines, worker[w].loaded.categoryid)
       IN worker' = [worker EXCEPT ![w].total = total,
                                   ![w].pc = IF total = 0 THEN "counted"
                                             ELSE "total"]
    /\ UNCHANGED <<category, sub_category, lines, erp_table, erp_column, session,
                   req, resp>>

\* the query of mapped_lines
race_count_mapped(w) ==
    /\ worker[w].pc = "total"
    /\ worker' = [worker EXCEPT
                     ![w].mapped = mapped_lines(lines, worker[w].loaded.categoryid),
                     ![w].pc = "counted"]
    /\ UNCHANGED <<category, sub_category, lines, erp_table, erp_column, session,
                   req, resp>>

\* the UPDATE of the category and its db.commit()
race_write_percent(w) ==
    /\ worker[w].pc = "counted"
    /\ category' = [category EXCEPT
                       ![worker[w].loaded.categoryid].percent_mapped =
                           PercentOf(worker[w].mapped, worker[w].total)]
    /\ worker' = [worker EXCEPT ![w].pc = "written"]
    /\ UNCHANGED <<sub_category, lines, erp_table, erp_column, session, req, resp>>

\* the line is loaded again for the response, and the session is closed
race_respond(w) ==
    /\ worker[w].pc = "written"
    /\ worker' = [worker EXCEPT
                     ![w].resp = LineResponse(lines, erp_table, erp_column,
                                              worker[w].line_id,
                                              IF IsTableClearing(worker[w].line_data)
                                              THEN "cleared_table_id"
                                              ELSE ActionOf(worker[w].line_data)),
                     ![w].pc = "done"]
    /\ UNCHANGED <<category, sub_category, lines, erp_table, erp_column, session,
                   req, resp>>

NextRace ==
    \E w \in Workers :
        \/ race_load(w)
        \/ race_commit_line(w)
        \/ race_count_total(w)
        \/ race_count_mapped(w)
        \/ race_write_percent(w)
        \/ race_respond(w)

SpecRace == Init /\ [][NextRace]_vars

\* --------------------------------------------- the specification of reads
\* The ten handlers that only read, over the ERP rows of the schema
\* specification and lines that are unmapped or mapped (so that the stored
\* percent_mapped, 0.0, is stale for a category with a mapped line).
ReadLineChoices ==
    {[table_id |-> None, column_id |-> None, reason |-> None],
     [table_id |-> Some(1), column_id |-> Some(1), reason |-> Some(<<"a">>)],
     [table_id |-> Some(2), column_id |-> Some(3), reason |-> None]}

InitRead ==
    /\ category = [c \in CategoryIds |-> [Name |-> c, percent_mapped |-> Zero]]
    /\ \E choice \in [LineIds -> ReadLineChoices] :
          lines = [i \in LineIds |->
                      [SeedLine(i, FALSE) EXCEPT
                          !.table_id = choice[i].table_id,
                          !.column_id = choice[i].column_id,
                          !.reason = choice[i].reason]]
    /\ erp_table = SchemaTables
    /\ erp_column = SchemaColumnRows
    /\ session = "closed"
    /\ req = NoRequest
    /\ resp = NoResponse
    /\ sub_category = SeedSubCategories
    /\ worker = NoWorkers

\* a read handler answers: the stored rows are those it found
Read(request, response) == Handle(request, Outcome(category, lines, response))

get_categories ==
    Read([NoRequest EXCEPT !.op = "get_categories"], GetCategories(category))

get_category ==
    \E category_id \in 1..(NumCategories + 1) :
        Handle([NoRequest EXCEPT !.op = "get_category",
                                 !.category_id = category_id],
               GetCategory(category, lines, category_id))

get_sub_categories_by_category ==
    \E category_id \in 1..(NumCategories + 1) :
        Read([NoRequest EXCEPT !.op = "get_sub_categories_by_category",
                               !.category_id = category_id],
             GetSubCategoriesByCategory(category, sub_category, category_id))

get_sub_category ==
    \E category_id \in 1..(NumCategories + 1),
       sub_category_id \in 1..(Len(sub_category) + 1) :
        Read([NoRequest EXCEPT !.op = "get_sub_category",
                               !.category_id = category_id,
                               !.sub_category_id = sub_category_id],
             GetSubCategory(category, sub_category, category_id, sub_category_id))

get_lines_by_category ==
    \E category_id \in 1..(NumCategories + 1) :
        Read([NoRequest EXCEPT !.op = "get_lines_by_category",
                               !.category_id = category_id],
             GetLinesByCategory(category, lines, erp_table, erp_column,
                                category_id))

get_erp_tables ==
    \E scan \in TableScanOrders(erp_table) :
        Read([NoRequest EXCEPT !.op = "get_erp_tables", !.scan = scan],
             GetErpTables(erp_table, scan))

get_erp_columns_by_table ==
    \E table_id \in 1..(Len(erp_table) + 1) :
        \E scan \in ColumnScanOrders(erp_column, table_id) :
            Read([NoRequest EXCEPT !.op = "get_erp_columns_by_table",
                                   !.table_id = table_id, !.scan = scan],
                 GetErpColumnsByTable(erp_table, erp_column, table_id, scan))

\* a blank term and one that matches
read_search_columns ==
    \E columnName \in {<<" ">>, <<"a">>} :
        \E scan \in ScanOrders(erp_column, erp_table) :
            Read([NoRequest EXCEPT !.op = "search_columns",
                                   !.columnName = columnName, !.scan = scan],
                 SearchColumns(erp_column, erp_table, scan, columnName))

\* no name, a blank name, and names that match
read_find_table_matches ==
    \E column_names \in {<< >>, <<<<" ">>>>, <<<<"a">>>>, <<<<"a">>, <<"b">>>>} :
        \E scan \in TableScanOrders(erp_table) :
            Read([NoRequest EXCEPT !.op = "find_table_matches",
                                   !.column_names = column_names, !.scan = scan],
                 FindTableMatches(erp_column, erp_table, scan, column_names))

NextRead ==
    \/ get_categories
    \/ get_category
    \/ get_sub_categories_by_category
    \/ get_sub_category
    \/ get_lines_by_category
    \/ get_erp_tables
    \/ get_erp_columns_by_table
    \/ read_search_columns
    \/ read_find_table_matches
    \/ download_schema
    \/ get_db_close

SpecRead == InitRead /\ [][NextRead]_vars

\* ================================================================ claims
\* The counts of section 4.1, taken over the stored lines.
CountedLines(c) ==
    {i \in DOMAIN lines :
        lines[i].categoryid = c /\ lines[i].field_name \notin {None, Some("")}}

MappedLines(c) ==
    {i \in CountedLines(c) : lines[i].table_id # None /\ lines[i].column_id # None}

\* category c stores 0.0 when nothing is counted, else 100 * mapped / total
PercentIsRight(c) ==
    LET total == Cardinality(CountedLines(c))
        mapped == Cardinality(MappedLines(c))
        stored == category[c].percent_mapped
    IN IF total = 0
       THEN stored.num = 0
       ELSE stored.num * total = 100 * mapped * stored.den

Answered(op) == session = "open" /\ req.op = op
Succeeded(op) == Answered(op) /\ resp.status = 200
Target == lines[req.line_id]

\* C1: once update_category_percent_mapped(c) has completed (for every
\* category in a recalculation, for the owning category in a successful
\* update_line), the stored percent_mapped of c is 0.0 when total = 0 and
\* 100 * mapped / total otherwise.
C1_PercentMappedValue ==
    /\ Succeeded("recalculate_all_percent_mapped") =>
           \A c \in DOMAIN category : PercentIsRight(c)
    /\ Succeeded("update_line") => PercentIsRight(Target.categoryid)

\* two counted lines, one of them mapped: 50.0 after a recalculation
C1_Witness ==
    /\ Succeeded("recalculate_all_percent_mapped")
    /\ Cardinality(CountedLines(1)) = 2
    /\ Cardinality(MappedLines(1)) = 1
    /\ category[1].percent_mapped = [num |-> 50, den |-> 1]

\* C2: after every successful update_line, whichever branch it took, the
\* owning category's percent_mapped is right for the lines as now stored.
C2_RecomputedInEveryBranch ==
    \A a \in {"cleared_table_id", "cleared_column_id", "updated"} :
        (Succeeded("update_line") /\ resp.action = a) =>
            PercentIsRight(Target.categoryid)

\* clearing a mapped line of category 1 brought it from 100.0 or 50.0 down
C2_Witness ==
    /\ Succeeded("update_line")
    /\ resp.action = "cleared_table_id"
    /\ Cardinality(MappedLines(Target.categoryid)) = 1
    /\ category[Target.categoryid].percent_mapped = [num |-> 50, den |-> 1]

\* C3: for an existing line, a request whose table_id is absent or 0
\* succeeds, leaves table_id and column_id null and answers
\* "cleared_table_id", whatever column_id it carries.
C3_ClearTable ==
    (/\ Answered("update_line")
     /\ req.line_id \in DOMAIN lines
     /\ req.line_data.table_id \in {None, Some(0)}) =>
        /\ resp.status = 200
        /\ resp.action = "cleared_table_id"
        /\ Target.table_id = None
        /\ Target.column_id = None

C3_Witness ==
    /\ Succeeded("update_line")
    /\ req.line_data.table_id = Some(0)
    /\ req.line_data.column_id = Some(1)
    /\ Target.column_id = None

\* the request names an existing table and an existing column of another
MismatchRequest ==
    /\ Answered("update_line")
    /\ req.line_data.table_id \notin {None, Some(0)}
    /\ Val(req.line_data.table_id) \in DOMAIN erp_table
    /\ req.line_data.column_id \notin {None, Some(0)}
    /\ Val(req.line_data.column_id) \in DOMAIN erp_column
    /\ erp_column[Val(req.line_data.column_id)].table_id # req.line_data.table_id

Is400Mismatch ==
    /\ resp.status = 400
    /\ resp.detail = "Column does not belong to the specified table"

\* C4 as stated: every such request is answered 400, whatever the line id.
C4_Original == MismatchRequest => Is400Mismatch

\* C4 (amended): such a request for an existing line is answered 400
\* "Column does not belong to the specified table".
C4_MismatchRejected ==
    (MismatchRequest /\ req.line_id \in DOMAIN lines) => Is400Mismatch

C4_Witness == MismatchRequest /\ req.line_id \in DOMAIN lines /\ Is400Mismatch

\* C5: update_line answers 404 exactly when the line does not exist, or
\* table_id is nonzero and names no table, or table_id is valid and
\* column_id is nonzero and names no column.
C5_NotFoundCases ==
    Answered("update_line") =>
        LET t == req.line_data.table_id
            c == req.line_data.column_id
            noLine == req.line_id \notin DOMAIN lines
            nonzeroTable == t \notin {None, Some(0)}
            noTable == nonzeroTable /\ Val(t) \notin DOMAIN erp_table
            noColumn == /\ nonzeroTable
                        /\ Val(t) \in DOMAIN erp_table
                        /\ c \notin {None, Some(0)}
                        /\ Val(c) \notin DOMAIN erp_column
        IN resp.status = 404 <=> (noLine \/ noTable \/ noColumn)

C5_Witness ==
    /\ Answered("update_line")
    /\ req.line_id \in DOMAIN lines
    /\ req.line_data.table_id = Some(1)
    /\ req.line_data.column_id = Some(2)
    /\ resp.status = 404
    /\ resp.detail = "ERP column not found"

\* C6: in every state every line's column_id, if set, names a column whose
\* table_id is the line's table_id (so never a column with a null table_id).
C6_ColumnBelongsToTable ==
    \A i \in DOMAIN lines :
        lines[i].column_id # None =>
            /\ lines[i].table_id # None
            /\ Val(lines[i].column_id) \in DOMAIN erp_column
            /\ erp_column[Val(lines[i].column_id)].table_id = lines[i].table_id

\* a rejected request for a mapped line, whose table_id was valid
C6_Witness ==
    /\ MismatchRequest
    /\ Is400Mismatch
    /\ Target.column_id # None

\* C7: after a successful update_line the stored comment is the request's
\* when it carries one and the previous one when it carries none.
C7_CommentApplied ==
    [][(session = "closed" /\ Succeeded("update_line")') =>
          lines'[req'.line_id].comment =
              IF req'.line_data.comment # None
              THEN req'.line_data.comment
              ELSE lines[req'.line_id].comment]_vars

\* the table-clearing branch replaced a comment by the empty one
C7_Witness ==
    /\ Succeeded("update_line")
    /\ resp.action = "cleared_table_id"
    /\ req.line_data.comment = Some("")
    /\ Target.comment = Some("")

\* C8 as stated: "updated" only when the line holds the table_id and the
\* column_id the request supplied; a cleared_* action whenever the request
\* cleared table_id or column_id, an absent column_id included.
C8_Original ==
    Succeeded("update_line") =>
        LET t == req.line_data.table_id
            c == req.line_data.column_id
            cleared == t \in {None, Some(0)} \/ c \in {None, Some(0)}
        IN /\ resp.action = "updated" =>
                  t # None /\ c # None /\ Target.table_id = t /\ Target.column_id = c
           /\ cleared => resp.action \in {"cleared_table_id", "cleared_column_id"}

\* C8 (amended): the action is "cleared_table_id" iff table_id is absent or
\* 0, "cleared_column_id" iff table_id is nonzero and column_id is 0, and
\* "updated" otherwise; "updated" leaves the line with the request's
\* table_id and with the request's column_id, null when it was absent.
C8_ActionTaken ==
    Succeeded("update_line") =>
        LET t == req.line_data.table_id
            c == req.line_data.column_id
        IN /\ resp.action = "cleared_table_id" <=> t \in {None, Some(0)}
           /\ resp.action = "cleared_column_id" <=>
                  (t \notin {None, Some(0)} /\ c = Some(0))
           /\ resp.action = "updated" <=>
                  (t \notin {None, Some(0)} /\ c # Some(0))
           /\ resp.action = "updated" =>
                  Target.table_id = t /\ Target.column_id = c

\* a nonzero table_id without column_id: column_id cleared, "updated"
C8_Witness ==
    /\ Succeeded("update_line")
    /\ req.line_data.table_id = Some(1)
    /\ req.line_data.column_id = None
    /\ Target.column_id = None
    /\ resp.action = "updated"

\* The results of the answered search that are column c with match type m.
Returned(c, m) ==
    \E k \in 1..Len(resp.results) :
        resp.results[k].column_id = c /\ resp.results[k].match_type = m

\* the search answers for column c as a term T asks
AnswersFor(T, c) ==
    LET name == Lower(erp_column[c].name)
        exact == name = Lower(T)
        partial == Contains(name, Lower(T)) /\ ~exact
    IN /\ Returned(c, "exact") <=> exact
       /\ Returned(c, "partial") <=> partial
       /\ (\E k \in 1..Len(resp.results) : resp.results[k].column_id = c) =>
              (exact \/ partial)

\* C9 as stated: the term T is columnName as the client sent it.
C9_Original ==
    Succeeded("search_columns") =>
        \A c \in JoinedColumns(erp_column, erp_table) : AnswersFor(req.columnName, c)

\* C9 (amended): for a columnName that is not rejected, with T the
\* columnName stripped of surrounding whitespace, a joined column C is
\* returned as "exact" iff lower(C.name) = lower(T), as "partial" iff
\* lower(T) is a substring of lower(C.name) and the match is not exact, and
\* is not returned otherwise.
C9_MatchTypes ==
    Succeeded("search_columns") =>
        \A c \in JoinedColumns(erp_column, erp_table) :
            AnswersFor(Strip(req.columnName), c)

\* a padded, mixed-case term with exact, partial and no matches
C9_Witness ==
    /\ Succeeded("search_columns")
    /\ req.columnName = <<" ", "A", "b">>
    /\ Returned(1, "exact") /\ Returned(3, "exact")
    /\ Returned(2, "partial") /\ Returned(4, "partial")
    /\ \A k \in 1..Len(resp.results) : resp.results[k].column_id # 5

\* the place of column c in the order the rows were scanned
ScanPos(c) == CHOOSE i \in 1..Len(req.scan) : req.scan[i] = c

\* C10: in every search response no partial match precedes an exact one,
\* and two results of the same match type are in scan order.
C10_ExactFirstScanOrder ==
    Succeeded("search_columns") =>
        \A i, j \in 1..Len(resp.results) :
            i < j =>
                LET a == resp.results[i]
                    b == resp.results[j]
                IN /\ ~(a.match_type = "partial" /\ b.match_type = "exact")
                   /\ a.match_type = b.match_type =>
                          ScanPos(a.column_id) < ScanPos(b.column_id)

\* two exact and two partial matches, scanned partial first and not by id
C10_Witness ==
    /\ Succeeded("search_columns")
    /\ req.scan = <<4, 3, 2, 1>>
    /\ Len(resp.results) = 4
    /\ resp.results[1].column_id = 3 /\ resp.results[1].match_type = "exact"
    /\ resp.results[2].column_id = 1 /\ resp.results[2].match_type = "exact"
    /\ resp.results[3].column_id = 4 /\ resp.results[3].match_type = "partial"
    /\ resp.results[4].column_id = 2 /\ resp.results[4].match_type = "partial"

\* C11: search_columns answers 400 with no results exactly when columnName
\* is empty or consists of whitespace only; every other columnName is
\* answered 200 and matched as its trimmed, lowercased form: the columns
\* returned are the joined columns whose lowercase name contains it.
C11_BlankRejected ==
    Answered("search_columns") =>
        LET blank == \A k \in 1..Len(req.columnName) : req.columnName[k] = " "
            term == Lower(Strip(req.columnName))
        IN /\ resp.status = 400 <=> blank
           /\ resp.status = 200 <=> ~blank
           /\ blank => resp.results = << >>
           /\ ~blank =>
                 {resp.results[k].column_id : k \in 1..Len(resp.results)} =
                     {c \in JoinedColumns(erp_column, erp_table) :
                         Contains(Lower(erp_column[c].name), term)}

\* a whitespace-only columnName, rejected
C11_Witness ==
    /\ Answered("search_columns")
    /\ req.columnName = <<" ", " ">>
    /\ resp.status = 400
    /\ resp.results = << >>

\* the trimmed, lowercased non-blank elements of the candidate list
CandidateSet ==
    {Lower(Strip(req.column_names[k])) :
        k \in {j \in 1..Len(req.column_names) : Strip(req.column_names[j]) # << >>}}

\* the number of columns of table t whose lowercase name is a candidate
ExpectedMatchCount(t) ==
    Cardinality({c \in DOMAIN erp_column :
        erp_column[c].table_id = Some(t) /\ Lower(erp_column[c].name) \in CandidateSet})

ReturnedAt(t) == {k \in 1..Len(resp.results) : resp.results[k].table_id = t}

\* C12: a table is returned iff one of its columns has a lowercase name
\* equal to a trimmed, lowercased non-blank candidate, and then (once,) with
\* match_count the number of such columns.
C12_MatchCount ==
    Succeeded("find_table_matches") =>
        \A t \in DOMAIN erp_table :
            /\ ReturnedAt(t) # {} <=> ExpectedMatchCount(t) >= 1
            /\ Cardinality(ReturnedAt(t)) <= 1
            /\ \A k \in ReturnedAt(t) :
                   resp.results[k].match_count = ExpectedMatchCount(t)

\* "ab" and "b": two columns of table 2, one of table 1, and of table 3
\* only "B", its "aab" containing a candidate without being one
C12_Witness ==
    /\ Succeeded("find_table_matches")
    /\ req.column_names = <<<<" ", "A", "b">>, <<"b">>>>
    /\ ExpectedMatchCount(1) = 1
    /\ ExpectedMatchCount(2) = 2
    /\ ExpectedMatchCount(3) = 1
    /\ Len(resp.results) = 3

\* C13: adjacent tables of a response are in the order of
\* (-match_count, table_name).
C13_SortedByCountThenName ==
    Succeeded("find_table_matches") =>
        \A k \in 1..(Len(resp.results) - 1) :
            LET a == resp.results[k]
                b == resp.results[k + 1]
            IN \/ a.match_count > b.match_count
               \/ /\ a.match_count = b.match_count
                  /\ (a.table_name = b.table_name \/ StrLess(a.table_name, b.table_name))

\* table 2 first by count, then table 3 ("B") before table 1 ("b") by
\* name, although the tables were scanned 1, 3, 2
C13_Witness ==
    /\ Succeeded("find_table_matches")
    /\ req.scan = <<1, 3, 2>>
    /\ Len(resp.results) = 3
    /\ resp.results[1].table_id = 2 /\ resp.results[1].match_count = 2
    /\ resp.results[2].table_id = 3 /\ resp.results[2].match_count = 1
    /\ resp.results[3].table_id = 1 /\ resp.results[3].match_count = 1

IsBlankName(x) == \A k \in 1..Len(x) : x[k] = " "

\* C14: the answer is 400 exactly when column_names is empty or all its
\* elements are blank; any other list is answered 200 with the result of the
\* list without its blank elements.
C14_EmptyOrAllBlankRejected ==
    Answered("find_table_matches") =>
        LET allBlank == \A k \in 1..Len(req.column_names) :
                            IsBlankName(req.column_names[k])
            nonBlank == SelectSeq(req.column_names, LAMBDA x : ~IsBlankName(x))
        IN /\ resp.status = 400 <=> allBlank
           /\ resp.status = 200 <=> ~allBlank
           /\ ~allBlank =>
                 resp.results =
                     FindTableMatches(erp_column, erp_table, req.scan, nonBlank).results

\* a list of blank elements only is rejected
C14_Witness ==
    /\ Answered("find_table_matches")
    /\ req.column_names = <<<< >>, <<" ">>>>
    /\ resp.status = 400
    /\ resp.detail = "No valid column names provided"

\* C15: once recalculate_all_percent_mapped has answered, a second call on
\* the same lines leaves every category's percent_mapped as the first call
\* left it.
C15_RecalculateIdempotent ==
    Succeeded("recalculate_all_percent_mapped") =>
        /\ RecalculateAll(category, lines).category = category
        /\ RecalculateAll(category, lines).resp = resp

\* a first call that stored a percentage other than the default
C15_Witness ==
    /\ Succeeded("recalculate_all_percent_mapped")
    /\ category[1].percent_mapped = Frac(50, 1)
    /\ RecalculateAll(category, lines).category = category

\* C16: an update_line request that fails leaves no part of its change
\* stored: neither a line nor a percent_mapped differs from before.
C16_AllOrNothing ==
    [][(session' = "open" /\ req'.op = "update_line" /\ resp'.status = 500)
          => (lines' = lines /\ category' = category)]_vars

\* C17: no session is open unless a request is in flight, and the one step
\* a request in flight takes, whatever its answer, is the close of its
\* session, with which the request ends.
C17_SessionClosed ==
    /\ [](session = "closed" <=> req.op = "none")
    /\ [][session = "open" => (session' = "closed" /\ req'.op = "none")]_vars

\* no session is open after a request that stored table 1 for line 1 (no
\* seeded line has it) has ended
C17_Witness ==
    /\ session = "closed"
    /\ req.op = "none"
    /\ lines[1].table_id = Some(1)

\* the tables of the schema document in the response
SchemaOut == resp.results[1].tables

\* the positions of the scan whose line maps to table name tn, column name cn
SeenAt(tn, cn) ==
    {p \in 1..Len(req.scan) :
        /\ erp_table[Val(lines[req.scan[p]].table_id)].name = tn
        /\ erp_column[Val(lines[req.scan[p]].column_id)].name = cn}

FirstOf(S) == CHOOSE p \in S : \A q \in S : p <= q

EmittedPairs ==
    UNION {{<<SchemaOut[k].name, SchemaOut[k].columns[j].name>> :
               j \in 1..Len(SchemaOut[k].columns)} : k \in 1..Len(SchemaOut)}

ReferredPairs ==
    {<<erp_table[Val(lines[i].table_id)].name, erp_column[Val(lines[i].column_id)].name>> :
        i \in {l \in DOMAIN lines :
                 lines[l].table_id # None /\ lines[l].column_id # None}}

ReasonsAt(tn, cn) == {p \in SeenAt(tn, cn) : HasReason(lines[req.scan[p]])}

\* C19: a column entry's description is the reason of the first line of the
\* scan that maps to the column and has a non-blank reason; it has none
\* only when no line that maps to the column has one.
C19_FirstNonBlankReason ==
    Succeeded("download_schema") =>
        \A k \in 1..Len(SchemaOut) :
            \A j \in 1..Len(SchemaOut[k].columns) :
                LET entry == SchemaOut[k].columns[j]
                    with_reason == ReasonsAt(SchemaOut[k].name, entry.name)
                IN IF with_reason = {} THEN entry.description = None
                   ELSE entry.description =
                            lines[req.scan[FirstOf(with_reason)]].reason

\* C20: a sub-category PATCH leaves every sub-category's id, name and
\* category_id, every other sub-category and everything that is not a
\* sub-category as they were; the addressed comment becomes the request's
\* when the request has one and stays otherwise; it is answered 404 with no
\* change when the category, or the sub-category under it, does not exist.
C20_OnlyCommentChanges ==
    [][(session' = "open" /\ req'.op = "update_sub_category_comment") =>
          LET c == req'.category_id
              id == req'.sub_category_id
              comment == req'.sub_category_data.comment
              found == /\ c \in DOMAIN category
                       /\ id \in DOMAIN sub_category
                       /\ sub_category[id].category_id = c
          IN /\ DOMAIN sub_category' = DOMAIN sub_category
             /\ \A s \in DOMAIN sub_category :
                    /\ sub_category'[s].name = sub_category[s].name
                    /\ sub_category'[s].category_id = sub_category[s].category_id
                    /\ s # id => sub_category'[s] = sub_category[s]
             /\ found =>
                    /\ resp'.status = 200
                    /\ sub_category'[id].comment =
                           IF comment # None THEN comment
                           ELSE sub_category[id].comment
             /\ ~found => (resp'.status = 404 /\ sub_category' = sub_category)
             /\ UNCHANGED <<category, lines, erp_table, erp_column>>]_vars

\* sub-category 1 of category 1 has received the comment "d"
C20_Witness ==
    /\ Succeeded("update_sub_category_comment")
    /\ req.category_id = 1
    /\ req.sub_category_id = 1
    /\ req.sub_category_data.comment = Some("d")
    /\ sub_category[1] = [name |-> "s1", category_id |-> 1, comment |-> Some("d")]

Completed(w) == worker[w].pc = "done" /\ worker[w].resp.status = 200

\* C21: once two concurrent update_line requests for two different lines of
\* one category have both completed, the category's stored percent_mapped
\* is 100 * mapped / total of the stored lines.
C21_ConsistentUnderConcurrency ==
    (/\ Completed(1) /\ Completed(2)
     /\ worker[1].line_id # worker[2].line_id
     /\ worker[1].loaded.categoryid = worker[2].loaded.categoryid)
        => PercentIsRight(worker[1].loaded.categoryid)

\* C22: an update_line request answered with an error (404, 400) leaves
\* every line and every category as stored before.
C22_ErrorChangesNothing ==
    [][(session' = "open" /\ req'.op = "update_line" /\ resp'.status \in {400, 404})
          => (lines' = lines /\ category' = category)]_vars

\* a request with a new comment and the existing table 1 is refused for
\* its column (of table 2): line 1 still has its comment and no table
C22_Witness ==
    /\ Answered("update_line")
    /\ resp.status = 400
    /\ req.line_id = 1
    /\ req.line_data = [table_id |-> Some(1), column_id |-> Some(1),
                        comment |-> Some("")]
    /\ Target.comment = Some("c")
    /\ Target.table_id = None

\* C23: after a successful recalculate_all_percent_mapped every category,
\* with or without lines, stores 100 * mapped / total of its lines (0.0 for
\* total = 0), and updated_count is the number of categories.
C23_RecalculateAll ==
    Succeeded("recalculate_all_percent_mapped") =>
        /\ \A c \in DOMAIN category :
               LET total == Cardinality(CountedLines(c))
                   mapped == Cardinality(MappedLines(c))
               IN category[c].percent_mapped =
                      IF total = 0 THEN [num |-> 0, den |-> 1]
                      ELSE Frac(100 * mapped, total)
        /\ resp.updated_count = Some(Cardinality(DOMAIN category))

\* category 1 is fully mapped, the last category has no counted line
C23_Witness ==
    /\ Succeeded("recalculate_all_percent_mapped")
    /\ category[1].percent_mapped = [num |-> 100, den |-> 1]
    /\ CountedLines(NumCategories) = {}
    /\ category[NumCategories].percent_mapped = [num |-> 0, den |-> 1]
    /\ resp.updated_count = Some(NumCategories)

\* C24: a recalculate_all_percent_mapped request that fails has changed no
\* category's percent_mapped.
C24_RecalculateAllOrNothing ==
    [][(session' = "open" /\ req'.op = "recalculate_all_percent_mapped"
        /\ resp'.status = 500) => category' = category]_vars

\* C25: every category's percent_mapped lies in [0, 100].
C25_PercentInRange ==
    \A c \in DOMAIN category :
        LET p == category[c].percent_mapped
        IN p.den > 0 /\ 0 <= p.num /\ p.num <= 100 * p.den

\* category 1 stores 100 after a request that mapped line 3, a line of it
\* that has no field_name and is not counted
C25_Witness ==
    /\ Succeeded("update_line")
    /\ req.line_id = 3
    /\ lines[3].categoryid = 1
    /\ lines[3].field_name = Some("")
    /\ lines[3].column_id = Some(1)
    /\ MappedLines(1) = CountedLines(1)
    /\ category[1].percent_mapped = [num |-> 100, den |-> 1]

\* C26: a successful update_line on line L changes at most L's table_id,
\* column_id and comment and the percent_mapped of L's category; the other
\* lines and categories, L's other fields, the ERP tables and columns and
\* the sub-categories stay as they were.
C26_UpdateLineFrame ==
    [][(session' = "open" /\ req'.op = "update_line" /\ resp'.status = 200) =>
          LET L == req'.line_id
          IN /\ DOMAIN lines' = DOMAIN lines
             /\ \A i \in DOMAIN lines : i # L => lines'[i] = lines[i]
             /\ lines'[L] = [lines[L] EXCEPT !.table_id = lines'[L].table_id,
                                             !.column_id = lines'[L].column_id,
                                             !.comment = lines'[L].comment]
             /\ DOMAIN category' = DOMAIN category
             /\ \A c \in DOMAIN category :
                    c # lines[L].categoryid => category'[c] = category[c]
             /\ category'[lines[L].categoryid] =
                    [category[lines[L].categoryid] EXCEPT
                        !.percent_mapped =
                            category'[lines[L].categoryid].percent_mapped]
             /\ UNCHANGED <<erp_table, erp_column, sub_category>>]_vars

\* line 2 has been mapped and its category stores 50, line 1, of the same
\* category, being unmapped as before
C26_Witness ==
    /\ Succeeded("update_line")
    /\ req.line_id = 2
    /\ req.line_data.table_id = Some(2)
    /\ req.line_data.column_id = Some(1)
    /\ lines[1].column_id = None
    /\ lines[2].column_id = Some(1)
    /\ category[1].percent_mapped = [num |-> 50, den |-> 1]

\* column_id, if set, is a column of the table table_id names
PairIsConsistent(line) ==
    line.column_id # None =>
        /\ line.table_id # None
        /\ erp_column[Val(line.column_id)].table_id = line.table_id

\* C27: once two concurrent update_line requests for the same line have
\* both completed, the line's (table_id, column_id) is the pair one of them
\* asked for, and its column_id, if set, belongs to its table_id.
C27_NoMixedPair ==
    (Completed(1) /\ Completed(2) /\ worker[1].line_id = worker[2].line_id) =>
        LET stored == lines[worker[1].line_id]
        IN /\ \E w \in Workers :
                  /\ stored.table_id = worker[w].intended.table_id
                  /\ stored.column_id = worker[w].intended.column_id
           /\ PairIsConsistent(stored)

\* C28: update_line checks, in this order, that the line exists, whether
\* table_id is absent or 0 (then it clears and succeeds, whatever column_id
\* is), that the table exists, that the column exists, that the column
\* belongs to the table; the answer is that of the first check that fails.
C28_CheckOrder ==
    Answered("update_line") =>
        LET d == req.line_data
            names_column == d.column_id \notin {None, Some(0)}
        IN IF req.line_id \notin DOMAIN lines
           THEN resp.status = 404 /\ resp.detail = "Line not found"
           ELSE IF d.table_id \in {None, Some(0)}
           THEN resp.status = 200 /\ resp.action = "cleared_table_id"
           ELSE IF Val(d.table_id) \notin DOMAIN erp_table
           THEN resp.status = 404 /\ resp.detail = "ERP table not found"
           ELSE IF names_column /\ Val(d.column_id) \notin DOMAIN erp_column
           THEN resp.status = 404 /\ resp.detail = "ERP column not found"
           ELSE IF names_column /\ erp_column[Val(d.column_id)].table_id # d.table_id
           THEN /\ resp.status = 400
                /\ resp.detail = "Column does not belong to the specified table"
           ELSE resp.status = 200

\* table 3 and column 2 both name nothing: the table is reported
C28_Witness ==
    /\ Answered("update_line")
    /\ req.line_id \in DOMAIN lines
    /\ req.line_data.table_id = Some(3)
    /\ req.line_data.column_id = Some(2)
    /\ 3 \notin DOMAIN erp_table
    /\ 2 \notin DOMAIN erp_column
    /\ resp.status = 404
    /\ resp.detail = "ERP table not found"

\* 100 * mapped / total of the stored lines of category c (0 for total = 0)
CorrectPercent(c) ==
    IF CountedLines(c) = {} THEN [num |-> 0, den |-> 1]
    ELSE Frac(100 * Cardinality(MappedLines(c)), Cardinality(CountedLines(c)))

FracLeq(a, b) == a.num * b.den <= b.num * a.den

\* C29: after a successful update_line the stored percent_mapped of the
\* line's category is, compared with the correct value of before, not
\* greater when the request clears the table or names no column, not
\* smaller when it names a table and a column, and equal when the line has
\* no field_name.
C29_Monotone ==
    [][(session' = "open" /\ req'.op = "update_line" /\ resp'.status = 200) =>
          LET line == lines[req'.line_id]
              d == req'.line_data
              before == CorrectPercent(line.categoryid)
              after == category'[line.categoryid].percent_mapped
              unmaps == \/ d.table_id \in {None, Some(0)}
                        \/ d.column_id \in {None, Some(0)}
          IN /\ unmaps => FracLeq(after, before)
             /\ ~unmaps => FracLeq(before, after)
             /\ line.field_name \in {None, Some("")} => after = before]_vars

\* line 1 was cleared while line 2 is mapped: the category stores 50
C29_Witness ==
    /\ Succeeded("update_line")
    /\ req.line_id = 1
    /\ req.line_data.table_id = Some(0)
    /\ lines[1].field_name = Some("f")
    /\ lines[1].table_id = None
    /\ lines[2].column_id = Some(1)
    /\ category[1].percent_mapped = [num |-> 50, den |-> 1]

ReadOps ==
    {"get_categories", "get_category", "get_sub_categories_by_category",
     "get_sub_category", "get_lines_by_category", "get_erp_tables",
     "get_erp_columns_by_table", "search_columns", "find_table_matches",
     "download_schema"}

\* C30: a read operation, answered 200 or rejected, leaves every line,
\* category, sub-category, ERP table and ERP column as it was.
C30_ReadsChangeNothing ==
    [][(session' = "open" /\ req'.op \in ReadOps) =>
          UNCHANGED <<lines, category, sub_category, erp_table, erp_column>>]_vars

\* category 1 was read while its stored percent_mapped, 0.0, is not that of
\* its lines: the answer shows the stored value, which stays
C30_Witness ==
    /\ Succeeded("get_category")
    /\ req.category_id = 1
    /\ MappedLines(1) # {}
    /\ resp.results[1].percent_mapped = [num |-> 0, den |-> 1]
    /\ category[1].percent_mapped = [num |-> 0, den |-> 1]

====
